---- MODULE Spec2Model ----
(***************************************************************************)
(* raspi-exporter: the collection-and-exposition pipeline.                 *)
(*                                                                         *)
(* One scrape (GET /metrics) runs                                          *)
(*   server::handle -> MetricsHandler::handle -> Throttled::collect        *)
(*     -> CommandExecutor::execute -> ThrottledParser::parse               *)
(*     -> ThrottledRegisterer::register -> text::encode -> response.       *)
(* Scrapes run as tasks of a multi-threaded runtime, so the steps of       *)
(* different scrapes interleave at every atomic operation on the shared    *)
(* Registry (a Mutex) and on the gauges (atomics reached through the       *)
(* Family handles).                                                        *)
(*                                                                         *)
(* Strings the parser reads are sequences of one-character strings.        *)
(*                                                                         *)
(* Spec          the scrapes of one run of the server                      *)
(* ParserSpec    parse() alone, on generated and named lines               *)
(* ExecutorSpec  execute() alone, on every way a child can end             *)
(* DisabledSpec  the scrapes of a handler built without a collector        *)
(* LiveSpec      Spec with hanging children, SIGINT/SIGTERM, the return    *)
(*               of Server::start, and the fairness of the runtime         *)
(***************************************************************************)
EXTENDS Integers, Sequences, FiniteSets, TLC

\* ------------------------------------------------------------------ bounds

\* Number of GET /metrics requests of one run.
MaxScrapes == 2

Scrapes == 1..MaxScrapes

\* --------------------------------------------------------------- constants

\* 2^16: a u32 is two of these.
HalfWord == 65536

Absent == -1

ActiveName == "raspi_throttling_active"
OccurredName == "raspi_throttling_occurred"
ActiveHelp == "State about throttling active currently"
OccurredHelp == "State about throttling occurred in the past"

OpenMetricsContentType == "application/openmetrics-text; version=1.0.0; charset=utf-8"
PlainContentType == "text/plain; charset=utf-8"

\* ThrottlingKind, in the order register() walks the kinds.
Kinds == <<"undervoltage", "arm frequency", "throttled", "soft temperature limit">>

KindSet == {Kinds[i] : i \in 1..Len(Kinds)}

\* The instantaneous and the historical flag of ThrottledState behind each kind.
ActiveFlag(st, kind) ==
    CASE kind = "undervoltage" -> st.undervoltage_detected
      [] kind = "arm frequency" -> st.arm_frequency_capped
      [] kind = "throttled" -> st.currently_throttled
      [] kind = "soft temperature limit" -> st.soft_temperature_limit_active

OccurredFlag(st, kind) ==
    CASE kind = "undervoltage" -> st.undervoltage_has_occurred
      [] kind = "arm frequency" -> st.arm_frequency_capping_has_occurred
      [] kind = "throttled" -> st.throttling_has_occurred
      [] kind = "soft temperature limit" -> st.soft_temperature_limit_has_occurred

\* bool.into() of an i64 gauge value.
BoolToInt(b) == IF b THEN 1 ELSE 0

\* ------------------------------------------------------------------ parser

Whitespace == {" ", "\t", "\n", "\r"}

RECURSIVE TrimStart(_)
TrimStart(s) ==
    IF s /= <<>> /\ Head(s) \in Whitespace THEN TrimStart(Tail(s)) ELSE s

RECURSIVE TrimEnd(_)
TrimEnd(s) ==
    IF s /= <<>> /\ s[Len(s)] \in Whitespace
    THEN TrimEnd(SubSeq(s, 1, Len(s) - 1))
    ELSE s

\* A trim that strips the whitespace in front only.
Trim_start(s) == TrimStart(s)

\* str::trim
Trim(s) == TrimEnd(TrimStart(s))

\* str::split_once('='): the text before and after the first '=', if any.
SplitOnce(s) ==
    IF \E i \in 1..Len(s) : s[i] = "="
    THEN LET i == CHOOSE j \in 1..Len(s) :
                      s[j] = "=" /\ \A h \in 1..(j - 1) : s[h] /= "="
         IN [found |-> TRUE, left |-> SubSeq(s, 1, i - 1), right |-> SubSeq(s, i + 1, Len(s))]
    ELSE [found |-> FALSE, left |-> <<>>, right |-> <<>>]

LowerHex == <<"0", "1", "2", "3", "4", "5", "6", "7", "8", "9", "a", "b", "c", "d", "e", "f">>
UpperHex == <<"0", "1", "2", "3", "4", "5", "6", "7", "8", "9", "A", "B", "C", "D", "E", "F">>

\* char::to_digit(16), -1 for a character that is no hexadecimal digit.
ToDigit(c) ==
    IF \E i \in 1..16 : LowerHex[i] = c THEN (CHOOSE i \in 1..16 : LowerHex[i] = c) - 1
    ELSE IF \E i \in 1..16 : UpperHex[i] = c THEN (CHOOSE i \in 1..16 : UpperHex[i] = c) - 1
    ELSE -1

\* A u32 is kept as its two 16-bit halves (the checker's integers are narrower
\* than 32 bits): the value is hi * 2^16 + lo.
U32(hi, lo) == [hi |-> hi, lo |-> lo]

Overflow == [hi |-> -1, lo |-> -1]

\* The digit loop of from_str_radix, result * 16 + digit with overflow checked:
\* Overflow on an invalid digit or when the value leaves u32.
RECURSIVE Accumulate(_, _)
Accumulate(digits, acc) ==
    IF digits = <<>> THEN acc
    ELSE LET d == ToDigit(Head(digits))
             lo == acc.lo * 16 + d
             hi == acc.hi * 16 + (lo \div HalfWord)
         IN IF d < 0 THEN Overflow
            ELSE IF hi >= HalfWord THEN Overflow
            ELSE Accumulate(Tail(digits), U32(hi, lo % HalfWord))

\* A conversion that keeps the 8 digits of lowest weight: the value modulo 2^32.
FromStrRadix16_truncating(src) ==
    IF src = <<>> THEN Overflow
    ELSE LET digits == IF Head(src) = "+" THEN Tail(src) ELSE src
             kept == IF Len(digits) > 8 THEN SubSeq(digits, Len(digits) - 7, Len(digits)) ELSE digits
         IN IF digits = <<>> THEN Overflow ELSE Accumulate(kept, U32(0, 0))

\* u32::from_str_radix(src, 16): an empty string is an error, one leading '+'
\* is accepted, a sign alone is an error; Overflow stands for Err(ParseIntError).
FromStrRadix16(src) ==
    IF src = <<>> THEN Overflow
    ELSE LET digits == IF Head(src) = "+" THEN Tail(src) ELSE src
         IN IF digits = <<>> THEN Overflow ELSE Accumulate(digits, U32(0, 0))

\* decimal & 0b1 << n != 0
Bit(decimal, n) ==
    IF n < 16
    THEN (decimal.lo \div (2 ^ n)) % 2 = 1
    ELSE (decimal.hi \div (2 ^ (n - 16))) % 2 = 1

\* A decoder that reads the historical flags from bits 4..7.
Decode_low(decimal) ==
    [undervoltage_detected |-> Bit(decimal, 0),
     arm_frequency_capped |-> Bit(decimal, 1),
     currently_throttled |-> Bit(decimal, 2),
     soft_temperature_limit_active |-> Bit(decimal, 3),
     undervoltage_has_occurred |-> Bit(decimal, 4),
     arm_frequency_capping_has_occurred |-> Bit(decimal, 5),
     throttling_has_occurred |-> Bit(decimal, 6),
     soft_temperature_limit_has_occurred |-> Bit(decimal, 7)]

\* parse(), lines 33-42: the ThrottledState of a value.
Decode(decimal) ==
    [undervoltage_detected |-> Bit(decimal, 0),
     arm_frequency_capped |-> Bit(decimal, 1),
     currently_throttled |-> Bit(decimal, 2),
     soft_temperature_limit_active |-> Bit(decimal, 3),
     undervoltage_has_occurred |-> Bit(decimal, 16),
     arm_frequency_capping_has_occurred |-> Bit(decimal, 17),
     throttling_has_occurred |-> Bit(decimal, 18),
     soft_temperature_limit_has_occurred |-> Bit(decimal, 19)]

NoCode == -2

\* An anyhow::Error: its message, the exit code or the offending line it embeds.
Error(kind, code, line) == [kind |-> kind, code |-> code, line |-> line]

InvalidInput(input) == Error("invalid input", NoCode, input)

\* ThrottledParser::parse. &v[2..] panics when v is shorter than two bytes.
ThrottledParser_parse(input) ==
    LET split == SplitOnce(Trim(input))
    IN IF ~split.found THEN [tag |-> "Err", err |-> InvalidInput(input)]
       ELSE IF Len(split.right) < 2 THEN [tag |-> "Panic"]
       ELSE LET decimal == FromStrRadix16(SubSeq(split.right, 3, Len(split.right)))
            IN IF decimal = Overflow
               THEN [tag |-> "Err", err |-> InvalidInput(input)]
               ELSE [tag |-> "Ok", state |-> Decode(decimal)]

\* ---------------------------------------------------------------- executor

\* What one child process does: whether it can be spawned, its exit status
\* (NoCode: killed by a signal), and the bytes it wrote to stdout.
Child(spawned, code, utf8, stdout) ==
    [spawned |-> spawned, code |-> code, utf8 |-> utf8, stdout |-> stdout]

LineD0005 == <<"t", "h", "r", "o", "t", "t", "l", "e", "d", "=", "0", "x", "d", "0", "0", "0", "5", "\n">>
Line20002 == <<"t", "h", "r", "o", "t", "t", "l", "e", "d", "=", "0", "x", "2", "0", "0", "0", "2", "\n">>
LineGarbage == <<"g", "a", "r", "b", "a", "g", "e">>
LineShort == <<"x", "=", "0">>

Children ==
    {Child(FALSE, NoCode, TRUE, <<>>),
     Child(TRUE, 1, TRUE, <<>>),
     Child(TRUE, NoCode, TRUE, <<>>),
     Child(TRUE, 0, FALSE, <<>>),
     Child(TRUE, 0, TRUE, LineD0005),
     Child(TRUE, 0, TRUE, Line20002),
     Child(TRUE, 0, TRUE, LineGarbage),
     Child(TRUE, 0, TRUE, LineShort)}

\* An executor that decodes stdout before it looks at the exit status.
CommandExecutor_execute_decode_first(child) ==
    IF ~child.spawned
    THEN [tag |-> "Err", err |-> Error("command execution error", NoCode, <<>>)]
    ELSE IF ~child.utf8
    THEN [tag |-> "Err", err |-> Error("invalid utf-8 sequence", NoCode, <<>>)]
    ELSE IF child.code /= 0
    THEN IF child.code /= NoCode
         THEN [tag |-> "Err", err |-> Error("process exited with status code", child.code, <<>>)]
         ELSE [tag |-> "Err", err |-> Error("process terminated by signal", NoCode, <<>>)]
    ELSE [tag |-> "Ok", out |-> child.stdout]

\* CommandExecutor::execute
CommandExecutor_execute(child) ==
    IF ~child.spawned
    THEN [tag |-> "Err", err |-> Error("command execution error", NoCode, <<>>)]
    ELSE IF child.code /= 0
    THEN IF child.code /= NoCode
         THEN [tag |-> "Err", err |-> Error("process exited with status code", child.code, <<>>)]
         ELSE [tag |-> "Err", err |-> Error("process terminated by signal", NoCode, <<>>)]
    ELSE IF ~child.utf8
    THEN [tag |-> "Err", err |-> Error("invalid utf-8 sequence", NoCode, <<>>)]
    ELSE [tag |-> "Ok", out |-> child.stdout]

\* ---------------------------------------------------------------- registry

\* Family::default(): a family without gauges.
NewFamily(name, help) ==
    [name |-> name, help |-> help, metrics |-> [kind \in KindSet |-> Absent]]

\* One line of the OpenMetrics text. A "# HELP" line carries the help text in
\* `label` (printed with the final "." the descriptor adds), a "sample" line the
\* kind in `label` and the gauge's value.
Line(t, name, label, value) == [t |-> t, name |-> name, label |-> label, value |-> value]

\* text::encode of one registered family: its descriptor, then its samples.
RECURSIVE Samples(_, _)
Samples(family, i) ==
    IF i > Len(Kinds) THEN <<>>
    ELSE (IF family.metrics[Kinds[i]] = Absent
          THEN <<>>
          ELSE <<Line("sample", family.name, Kinds[i], family.metrics[Kinds[i]])>>)
         \o Samples(family, i + 1)

EncodeFamily(family) ==
    <<Line("# HELP", family.name, family.help, 0), Line("# TYPE", family.name, "gauge", 0)>>
    \o Samples(family, 1)

RECURSIVE EncodeFamilies(_, _)
EncodeFamilies(reg, i) ==
    IF i > Len(reg) THEN <<>> ELSE EncodeFamily(reg[i]) \o EncodeFamilies(reg, i + 1)

\* text::encode(&mut buffer, &registry)
Encode(reg) == EncodeFamilies(reg, 1) \o <<Line("# EOF", "", "", 0)>>

\* ------------------------------------------------------------------- state

VARIABLES
    pc,                          \* where each scrape's task is
    registry,                    \* Arc<Mutex<Registry>>: the registered families
    lock,                        \* the scrape holding the registry mutex, 0 if free
    output,                      \* collect(): the executor's result
    state,                       \* collect(): the parser's result
    throttling_active_family,    \* register(): handle of the call's active family
    throttling_occurred_family,  \* register(): handle of the call's occurred family
    kind,                        \* register(): the kind whose gauge is being written
    metric_get,                  \* register(): what metric.get() returned
    prev_occurred,               \* what was exposed per kind when register() was entered
    overlapped,                  \* whether two register() calls ever ran at the same time
    sent,                        \* the latest answer: whose it is, what handle()
                                 \* returned and the HTTP response made of it
    child,                       \* execute(): what the scrape's child process did
    calls,                       \* how often each scrape called each stage
    server,                      \* Server::start: serving, draining or returned
    hung                         \* the scrapes whose child process never exits

vars == <<pc, registry, lock, output, state, throttling_active_family,
          throttling_occurred_family, kind, metric_get, prev_occurred, overlapped, sent,
          child, calls, server, hung>>

\* ------------------------------------------------------ handler and server

\* A handler that logs the collector's error and encodes the registry all the same.
MetricsHandler_handle_err_logged(err) == [tag |-> "Ok", text |-> Encode(registry)]

\* MetricsHandler::handle, the collector error: `?` after with_context.
MetricsHandler_handle_err(err) ==
    [tag |-> "Err", err |-> [kind |-> "throttled collector error", code |-> NoCode, line |-> <<>>, source |-> err]]

\* A server that answers a failure with the error's text.
ServerHandle_leaky(res) ==
    IF res.tag = "Ok"
    THEN [status |-> 200, content_type |-> OpenMetricsContentType, body |-> res.text]
    ELSE [status |-> 500, content_type |-> PlainContentType, body |-> <<res.err.kind>>]

\* server::handle: the response built from the handler's result.
ServerHandle(res) ==
    IF res.tag = "Ok"
    THEN [status |-> 200, content_type |-> OpenMetricsContentType, body |-> res.text]
    ELSE [status |-> 500, content_type |-> PlainContentType, body |-> <<>>]

NoResponse == [status |-> 0, content_type |-> "", body |-> <<>>]

None == [tag |-> "None"]

\* Every value some family named `name` holds for `k`.
Exposed(reg, name, k) ==
    {reg[i].metrics[k] : i \in {j \in 1..Len(reg) : reg[j].name = name /\ reg[j].metrics[k] /= Absent}}

\* axum::serve is accepting connections and no signal has been delivered.
Serving == [phase |-> "serving", signal |-> "none"]

\* No stage has been called yet.
NoCalls == [collect |-> 0, execute |-> 0, parse |-> 0, register |-> 0]

Init ==
    /\ pc = [s \in Scrapes |-> "idle"]
    /\ registry = <<>>
    /\ lock = 0
    /\ output = [s \in Scrapes |-> None]
    /\ state = [s \in Scrapes |-> None]
    /\ throttling_active_family = [s \in Scrapes |-> 0]
    /\ throttling_occurred_family = [s \in Scrapes |-> 0]
    /\ kind = [s \in Scrapes |-> 0]
    /\ metric_get = [s \in Scrapes |-> 0]
    /\ prev_occurred = [s \in Scrapes |-> [k \in KindSet |-> 0]]
    /\ overlapped = FALSE
    /\ sent = [scrape |-> 0, result |-> None, response |-> NoResponse]
    /\ child = [s \in Scrapes |-> None]
    /\ calls = [s \in Scrapes |-> NoCalls]
    /\ server = Serving
    /\ hung = {}

\* The positions of a task inside ThrottledRegisterer::register.
RegisterPcs ==
    {"reg_lock", "reg_families", "active_create", "active_set",
     "occurred_create", "occurred_get", "occurred_inc"}

\* Another scrape is inside register() when this one enters it.
OthersInRegister(s) == \E t \in Scrapes \ {s} : pc[t] \in RegisterPcs

\* The worker threads of the runtime (#[tokio::main]): two are modelled. A task
\* that is not awaiting its child runs on one of them until it awaits or ends;
\* waiting for the std::sync::Mutex of the registry blocks the thread it is on.
Workers == {"worker-1", "worker-2"}

\* The positions of a task between the return of execute().await and the response.
RunningPcs == RegisterPcs \cup {"parse", "encode_lock", "encode"}

Running == {s \in Scrapes : pc[s] \in RunningPcs}

\* handle() has returned: server::handle answers and the task ends.
Answer(s, res) ==
    /\ sent' = [scrape |-> s, result |-> res, response |-> ServerHandle(res)]
    /\ pc' = [pc EXCEPT ![s] = "done"]

\* collect() failed: what handle() returns goes to server::handle.
Fail(s, err) == Answer(s, MetricsHandler_handle_err(err))

\* A collect() that takes the registry lock before it spawns the child.
Accept_locked(s) ==
    /\ server.phase = "serving"
    /\ pc[s] = "idle"
    /\ \A j \in 1..(s - 1) : pc[j] /= "idle"
    /\ lock = 0
    /\ lock' = s
    /\ pc' = [pc EXCEPT ![s] = "execute"]
    /\ calls' = [calls EXCEPT ![s].collect = @ + 1]
    /\ UNCHANGED <<registry, output, state, throttling_active_family,
                   throttling_occurred_family, kind, metric_get, prev_occurred, overlapped, sent,
                   child, server, hung>>

\* A GET /metrics arrives: handle() -> collect() -> execute() spawns the child.
Accept(s) ==
    /\ server.phase = "serving"
    /\ pc[s] = "idle"
    /\ \A j \in 1..(s - 1) : pc[j] /= "idle"
    /\ pc' = [pc EXCEPT ![s] = "execute"]
    /\ calls' = [calls EXCEPT ![s].collect = @ + 1]
    /\ UNCHANGED <<registry, lock, output, state, throttling_active_family,
                   throttling_occurred_family, kind, metric_get, prev_occurred, overlapped, sent,
                   child, server, hung>>

\* A collect() that takes the output of a poll another scrape has already run
\* instead of running its own.
ExecuteChild_coalesced(s, c) ==
    /\ pc[s] = "execute"
    /\ s \notin hung
    /\ Cardinality(Running) < Cardinality(Workers)
    /\ LET polled == {t \in Scrapes \ {s} : output[t] /= None}
           out == IF polled = {}
                  THEN CommandExecutor_execute(c)
                  ELSE output[CHOOSE t \in polled : TRUE]
       IN /\ output' = [output EXCEPT ![s] = out]
          /\ IF out.tag = "Ok"
             THEN /\ pc' = [pc EXCEPT ![s] = "parse"]
                  /\ UNCHANGED sent
             ELSE Fail(s, out.err)
          /\ IF polled = {}
             THEN /\ child' = [child EXCEPT ![s] = c]
                  /\ calls' = [calls EXCEPT ![s].execute = @ + 1]
             ELSE UNCHANGED <<child, calls>>
    /\ UNCHANGED <<registry, lock, state, throttling_active_family,
                   throttling_occurred_family, kind, metric_get, prev_occurred, overlapped,
                   server, hung>>

\* collect(), line 38: self.executor.execute().await? resolves with what the
\* child `c` did: the task is woken and goes on as soon as a worker thread is
\* free.
ExecuteChild(s, c) ==
    /\ pc[s] = "execute"
    /\ s \notin hung
    /\ Cardinality(Running) < Cardinality(Workers)
    /\ LET out == CommandExecutor_execute(c)
       IN /\ output' = [output EXCEPT ![s] = out]
          /\ IF out.tag = "Ok"
             THEN /\ pc' = [pc EXCEPT ![s] = "parse"]
                  /\ UNCHANGED sent
             ELSE Fail(s, out.err)
    /\ child' = [child EXCEPT ![s] = c]
    /\ calls' = [calls EXCEPT ![s].execute = @ + 1]
    /\ UNCHANGED <<registry, lock, state, throttling_active_family,
                   throttling_occurred_family, kind, metric_get, prev_occurred, overlapped,
                   server, hung>>

\* One scrape's child does one of the things of Children.
Execute(s) == \E c \in Children : ExecuteChild(s, c)

\* A collect() that goes on to register() with what a failed parse left.
Parse_lenient(s) ==
    /\ pc[s] = "parse"
    /\ LET parsed == ThrottledParser_parse(output[s].out)
       IN /\ state' = [state EXCEPT ![s] =
                 IF parsed.tag = "Ok" THEN parsed
                 ELSE [tag |-> "Err", err |-> InvalidInput(output[s].out), state |-> Decode(U32(0, 0))]]
          /\ pc' = [pc EXCEPT ![s] = "reg_lock"]
          /\ overlapped' = (overlapped \/ OthersInRegister(s))
          /\ UNCHANGED sent
    /\ calls' = [calls EXCEPT ![s].parse = @ + 1]
    /\ UNCHANGED <<registry, lock, output, throttling_active_family,
                   throttling_occurred_family, kind, metric_get, prev_occurred,
                   child, server, hung>>

\* self.parser.parse(&output)?
Parse(s) ==
    /\ pc[s] = "parse"
    /\ LET parsed == ThrottledParser_parse(output[s].out)
       IN /\ state' = [state EXCEPT ![s] = parsed]
          /\ CASE parsed.tag = "Ok" ->
                    /\ pc' = [pc EXCEPT ![s] = "reg_lock"]
                    /\ UNCHANGED sent
               [] parsed.tag = "Err" -> Fail(s, parsed.err)
               [] parsed.tag = "Panic" ->
                    /\ pc' = [pc EXCEPT ![s] = "panicked"]
                    /\ UNCHANGED sent
          /\ overlapped' = (overlapped \/ (parsed.tag = "Ok" /\ OthersInRegister(s)))
    /\ calls' = [calls EXCEPT ![s].parse = @ + 1]
    /\ UNCHANGED <<registry, lock, output, throttling_active_family,
                   throttling_occurred_family, kind, metric_get, prev_occurred,
                   child, server, hung>>

\* ThrottledRegisterer::register, line 24: self.registry.lock()
RegisterLock(s) ==
    /\ pc[s] = "reg_lock"
    /\ lock = 0
    /\ lock' = s
    /\ prev_occurred' = [prev_occurred EXCEPT ![s] =
           [k \in KindSet |-> IF 1 \in Exposed(registry, OccurredName, k) THEN 1 ELSE 0]]
    /\ pc' = [pc EXCEPT ![s] = "reg_families"]
    /\ calls' = [calls EXCEPT ![s].register = @ + 1]
    /\ UNCHANGED <<registry, output, state, throttling_active_family,
                   throttling_occurred_family, kind, metric_get, overlapped, sent,
                   child, server, hung>>

\* Registry::register pushes the descriptor and the metric: nothing is looked up.
Registry_register(reg, name, help) == Append(reg, NewFamily(name, help))

\* A register() that registers the two families on the first call only and
\* hands every later call the handles of the registered ones.
RegisterFamilies_shared(s) ==
    /\ pc[s] = "reg_families"
    /\ lock = s
    /\ IF registry = <<>>
       THEN /\ registry' = Registry_register(Registry_register(registry, ActiveName, ActiveHelp),
                                             OccurredName, OccurredHelp)
            /\ throttling_active_family' = [throttling_active_family EXCEPT ![s] = Len(registry) + 1]
            /\ throttling_occurred_family' = [throttling_occurred_family EXCEPT ![s] = Len(registry) + 2]
       ELSE /\ registry' = registry
            /\ throttling_active_family' = [throttling_active_family EXCEPT ![s] = 1]
            /\ throttling_occurred_family' = [throttling_occurred_family EXCEPT ![s] = 2]
    /\ lock' = 0
    /\ kind' = [kind EXCEPT ![s] = 1]
    /\ pc' = [pc EXCEPT ![s] = "active_create"]
    /\ UNCHANGED <<output, state, metric_get, prev_occurred, overlapped, sent,
                   child, calls, server, hung>>

\* register(), lines 25-35: both families are registered, then the guard is dropped.
RegisterFamilies(s) ==
    /\ pc[s] = "reg_families"
    /\ lock = s
    /\ registry' = Registry_register(Registry_register(registry, ActiveName, ActiveHelp),
                                     OccurredName, OccurredHelp)
    /\ throttling_active_family' = [throttling_active_family EXCEPT ![s] = Len(registry) + 1]
    /\ throttling_occurred_family' = [throttling_occurred_family EXCEPT ![s] = Len(registry) + 2]
    /\ lock' = 0
    /\ kind' = [kind EXCEPT ![s] = 1]
    /\ pc' = [pc EXCEPT ![s] = "active_create"]
    /\ UNCHANGED <<output, state, metric_get, prev_occurred, overlapped, sent,
                   child, calls, server, hung>>

\* Family::get_or_create: the gauge of a label set, created at 0 when missing.
GetOrCreate(reg, family, k) ==
    IF reg[family].metrics[k] = Absent
    THEN [reg EXCEPT ![family].metrics[k] = 0]
    ELSE reg

\* Gauge::set
GaugeSet(reg, family, k, v) == [reg EXCEPT ![family].metrics[k] = v]

\* Gauge::inc
GaugeInc(reg, family, k) == [reg EXCEPT ![family].metrics[k] = @ + 1]

\* register(), lines 37-40: throttling_active_family.get_or_create(..)
ActiveGetOrCreate(s) ==
    /\ pc[s] = "active_create"
    /\ registry' = GetOrCreate(registry, throttling_active_family[s], Kinds[kind[s]])
    /\ pc' = [pc EXCEPT ![s] = "active_set"]
    /\ UNCHANGED <<lock, output, state, throttling_active_family,
                   throttling_occurred_family, kind, metric_get, prev_occurred, overlapped, sent,
                   child, calls, server, hung>>

\* The value register() hands to set(): the kind's instantaneous flag.
ActiveValue(st, k) == BoolToInt(ActiveFlag(st, k))

\* register(), lines 37-40: .set(state.<flag>.into())
ActiveSet(s) ==
    /\ pc[s] = "active_set"
    /\ registry' = GaugeSet(registry, throttling_active_family[s], Kinds[kind[s]],
                            ActiveValue(state[s].state, Kinds[kind[s]]))
    /\ IF kind[s] < Len(Kinds)
       THEN /\ kind' = [kind EXCEPT ![s] = @ + 1]
            /\ pc' = [pc EXCEPT ![s] = "active_create"]
       ELSE /\ kind' = [kind EXCEPT ![s] = 1]
            /\ pc' = [pc EXCEPT ![s] = "occurred_create"]
    /\ UNCHANGED <<lock, output, state, throttling_active_family,
                   throttling_occurred_family, metric_get, prev_occurred, overlapped, sent,
                   child, calls, server, hung>>

\* register(), lines 43, 50, 57, 64: throttling_occurred_family.get_or_create(..)
OccurredGetOrCreate(s) ==
    /\ pc[s] = "occurred_create"
    /\ registry' = GetOrCreate(registry, throttling_occurred_family[s], Kinds[kind[s]])
    /\ pc' = [pc EXCEPT ![s] = "occurred_get"]
    /\ UNCHANGED <<lock, output, state, throttling_active_family,
                   throttling_occurred_family, kind, metric_get, prev_occurred, overlapped, sent,
                   child, calls, server, hung>>

\* The condition of lines 44, 51, 58, 65: state.<flag> && metric.get() == 0
ShouldInc(flag, got) == flag /\ got = 0

\* After the gauge of the last kind register() returns Ok and handle() goes on.
NextKind(s) ==
    IF kind[s] < Len(Kinds)
    THEN /\ kind' = [kind EXCEPT ![s] = @ + 1]
         /\ pc' = [pc EXCEPT ![s] = "occurred_create"]
    ELSE /\ kind' = [kind EXCEPT ![s] = 0]
         /\ pc' = [pc EXCEPT ![s] = "encode_lock"]

\* register(), lines 44, 51, 58, 65: the test, metric.get() read when the flag is set.
OccurredGet(s) ==
    /\ pc[s] = "occurred_get"
    /\ LET got == registry[throttling_occurred_family[s]].metrics[Kinds[kind[s]]]
       IN /\ metric_get' = [metric_get EXCEPT ![s] = got]
          /\ IF ShouldInc(OccurredFlag(state[s].state, Kinds[kind[s]]), got)
             THEN /\ pc' = [pc EXCEPT ![s] = "occurred_inc"]
                  /\ UNCHANGED kind
             ELSE NextKind(s)
    /\ UNCHANGED <<registry, lock, output, state, throttling_active_family,
                   throttling_occurred_family, prev_occurred, overlapped, sent,
                   child, calls, server, hung>>

\* register(), lines 45, 52, 59, 66: metric.inc()
OccurredInc(s) ==
    /\ pc[s] = "occurred_inc"
    /\ registry' = GaugeInc(registry, throttling_occurred_family[s], Kinds[kind[s]])
    /\ NextKind(s)
    /\ UNCHANGED <<lock, output, state, throttling_active_family,
                   throttling_occurred_family, metric_get, prev_occurred, overlapped, sent,
                   child, calls, server, hung>>

\* MetricsHandler::handle, line 52: self.registry.lock()
EncodeLock(s) ==
    /\ pc[s] = "encode_lock"
    /\ lock = 0
    /\ lock' = s
    /\ pc' = [pc EXCEPT ![s] = "encode"]
    /\ UNCHANGED <<registry, output, state, throttling_active_family,
                   throttling_occurred_family, kind, metric_get, prev_occurred, overlapped, sent,
                   child, calls, server, hung>>

\* MetricsHandler::handle, lines 49-55: the registry is encoded under the lock,
\* the guard is dropped and Ok(buffer) goes back to server::handle.
EncodeRegistry(s) ==
    /\ pc[s] = "encode"
    /\ lock = s
    /\ lock' = 0
    /\ Answer(s, [tag |-> "Ok", text |-> Encode(registry)])
    /\ UNCHANGED <<registry, output, state, throttling_active_family,
                   throttling_occurred_family, kind, metric_get, prev_occurred, overlapped,
                   child, calls, server, hung>>

Next ==
    \E s \in Scrapes :
        \/ Accept(s)
        \/ Execute(s)
        \/ Parse(s)
        \/ RegisterLock(s)
        \/ RegisterFamilies(s)
        \/ ActiveGetOrCreate(s)
        \/ ActiveSet(s)
        \/ OccurredGetOrCreate(s)
        \/ OccurredGet(s)
        \/ OccurredInc(s)
        \/ EncodeLock(s)
        \/ EncodeRegistry(s)

Spec == Init /\ [][Next]_vars

\* ------------------------------------------------------------ observations

Done(s) == pc[s] = "done"

\* The latest answer is this scrape's.
Answered(s) == sent.scrape = s

\* The scrape's register() call has put its families into the registry.
Registered(s) == throttling_active_family[s] /= 0

\* collect() returned Err, or panicked, before the registerer.
ExecutorFailed(s) == output[s].tag = "Err"
ParserFailed(s) == state[s].tag \in {"Err", "Panic"}

\* register() has returned for this scrape.
RegisterReturned(s) == Registered(s) /\ pc[s] \in {"encode_lock", "encode", "done"}

\* No scrape is in flight.
AllComplete == \A s \in Scrapes : pc[s] \in {"idle", "done", "panicked"}

ExposedActive(k) == Exposed(registry, ActiveName, k)
ExposedOccurred(k) == Exposed(registry, OccurredName, k)

\* The scrape whose register() call took the registry lock last.
LastPoll ==
    CHOOSE s \in Scrapes :
        Registered(s) /\ \A t \in Scrapes : throttling_active_family[t] <= throttling_active_family[s]

Families(name) == {i \in 1..Len(registry) : registry[i].name = name}

\* ------------------------------------------------------------------ claims

\* C1: latch monotonicity. Over every step, whatever polls run, each value
\* exposed for raspi_throttling_occurred of a kind is at least every value that
\* was exposed for it before: once 1 is exposed for a kind, no 0 is exposed for
\* it again.
C1_LatchMonotonic ==
    [][\A k \in KindSet :
          \A v \in ExposedOccurred(k) :
              \A w \in Exposed(registry', OccurredName, k) : w >= v]_vars

\* C2: active-gauge freshness. When no poll is in flight, the polls ran one
\* after the other and some poll has succeeded, the values exposed for raspi_throttling_active of each kind are
\* the instantaneous flag of the most recent successful poll and nothing else.
C2_ActiveFreshness ==
    (AllComplete /\ ~overlapped /\ \E s \in Scrapes : Registered(s)) =>
        \A k \in KindSet : ExposedActive(k) = {ActiveValue(state[LastPoll].state, k)}

\* C3: families are registered once. After any number n >= 1 of register()
\* calls the registry holds exactly one family named raspi_throttling_active
\* and exactly one named raspi_throttling_occurred.
C3_RegisteredOnce ==
    (\E s \in Scrapes : Registered(s)) =>
        /\ Cardinality(Families(ActiveName)) = 1
        /\ Cardinality(Families(OccurredName)) = 1

\* C4: staleness over blankness. A scrape whose collect() failed is still
\* answered by handle() with the serialization of the registry, as a success:
\* a text that ends with the "# EOF" line.
C4_CollectorFailureServed ==
    \A s \in Scrapes :
        (Answered(s) /\ (ExecutorFailed(s) \/ ParserFailed(s))) =>
            /\ sent.result.tag = "Ok"
            /\ sent.result.text /= <<>>
            /\ sent.result.text[Len(sent.result.text)].t = "# EOF"

\* C5: a scrape whose command exited with a nonzero status is answered with
\* status 500 and an empty body.
C5_NonZeroExit500 ==
    \A s \in Scrapes :
        (Answered(s) /\ ExecutorFailed(s) /\ output[s].err.kind = "process exited with status code") =>
            /\ sent.response.status = 500
            /\ sent.response.body = <<>>

C5_Witness ==
    \E s \in Scrapes :
        /\ Answered(s)
        /\ ExecutorFailed(s)
        /\ output[s].err.kind = "process exited with status code"
        /\ output[s].err.code = 1
        /\ registry /= <<>>

\* C6: HTTP mapping. A handler result Ok(text) is answered 200 with the
\* OpenMetrics content type and exactly that text; a handler error, whatever
\* it is, is answered 500 with an empty body and nothing else: the one response
\* every failed scrape gets.
C6_HttpMapping ==
    \A s \in Scrapes :
        Answered(s) =>
            /\ sent.result.tag \in {"Ok", "Err"}
            /\ sent.result.tag = "Ok" =>
                 /\ sent.response.status = 200
                 /\ sent.response.content_type = "application/openmetrics-text; version=1.0.0; charset=utf-8"
                 /\ sent.response.body = sent.result.text
            /\ sent.result.tag = "Err" =>
                 sent.response = [status |-> 500, content_type |-> "text/plain; charset=utf-8", body |-> <<>>]

C6_Witness ==
    \E s, t \in Scrapes :
        /\ Answered(s) /\ Done(t)
        /\ sent.result.tag = "Err"
        /\ sent.result.err.source.kind = "invalid input"
        /\ ExecutorFailed(t)
        /\ sent.response.status = 500

\* C7: a failed poll leaves the registry unchanged. A scrape whose executor or
\* parser failed never enters register() and owns no family, and every step
\* that changes the registry is taken by a scrape inside register() whose
\* executor and parser both succeeded.
C7_FailedPollFrame ==
    [][/\ \A s \in Scrapes :
             (ExecutorFailed(s)' \/ ParserFailed(s)') =>
                 /\ pc'[s] \in {"done", "panicked"}
                 /\ throttling_active_family'[s] = 0
                 /\ throttling_occurred_family'[s] = 0
       /\ registry' /= registry =>
             \E s \in Scrapes :
                 /\ pc[s] \in RegisterPcs
                 /\ pc'[s] /= pc[s]
                 /\ output[s].tag = "Ok"
                 /\ state[s].tag = "Ok"]_vars

C7_Witness ==
    \E s, t \in Scrapes :
        /\ Done(s) /\ ParserFailed(s)
        /\ Done(t) /\ Registered(t)
        /\ throttling_active_family[s] = 0
        /\ Len(registry) = 2

\* C8: occurred provenance. Over every step and for every kind: an exposed
\* raspi_throttling_occurred value of 1 comes with a successful poll that
\* observed the kind's historical flag, and Occurred is terminal: once the value
\* exposed for a kind is 1 it stays 1.
C8_OccurredProvenance ==
    [][\A k \in KindSet :
          /\ 1 \in Exposed(registry', OccurredName, k) =>
                 \E s \in Scrapes : state'[s].tag = "Ok" /\ OccurredFlag(state'[s].state, k)
          /\ ExposedOccurred(k) = {1} => Exposed(registry', OccurredName, k) = {1}]_vars

\* C9: latch step rule. When a register(state) call that ran alone has returned,
\* the occurred gauge it wrote for each kind holds (the value exposed for the
\* kind before the call) OR (the kind's historical flag of state).
C9_LatchStep ==
    \A s \in Scrapes :
        (RegisterReturned(s) /\ ~overlapped) =>
            \A k \in KindSet :
                registry[throttling_occurred_family[s]].metrics[k] =
                    IF prev_occurred[s][k] = 1 \/ OccurredFlag(state[s].state, k) THEN 1 ELSE 0

\* C10: concurrent scrapes are equivalent to a sequential execution. When all
\* scrapes have completed, there is a poll that is last in some order such that
\* the registry exposes, for every kind, that poll's instantaneous flag as
\* active and the union of the historical flags of all polls as occurred.
C10_SequentialEquivalent ==
    (AllComplete /\ \E s \in Scrapes : Registered(s)) =>
        \E last \in {s \in Scrapes : Registered(s)} :
            \A k \in KindSet :
                /\ ExposedActive(k) = {ActiveValue(state[last].state, k)}
                /\ ExposedOccurred(k) =
                       {BoolToInt(\E s \in Scrapes : Registered(s) /\ OccurredFlag(state[s].state, k))}

\* The positions of register() at which a gauge is created, read or written.
GaugePcs == RegisterPcs \ {"reg_lock", "reg_families"}

\* The lines of kind `t` an encoded text has for the family `name`.
LinesOf(text, t, name) == {i \in 1..Len(text) : text[i].t = t /\ text[i].name = name}

\* The sample lines of a text, whatever the family.
SampleLines(text) == {i \in 1..Len(text) : text[i].t = "sample"}

\* The "# TYPE" lines of a text: one per encoded family.
TypeLines(text) == {i \in 1..Len(text) : text[i].t = "# TYPE"}

\* C11: registry reads and writes are mutually exclusive. A task that creates,
\* reads or writes a gauge of its poll holds the registry lock, and no
\* serialization shows a partially applied poll: every family of an answered
\* text comes with the gauges of all 4 kinds.
C11_UpdatesUnderLock ==
    /\ \A s \in Scrapes : pc[s] \in GaugePcs => lock = s
    /\ sent.result.tag = "Ok" =>
           Cardinality(SampleLines(sent.result.text))
               = Cardinality(KindSet) * Cardinality(TypeLines(sent.result.text))

\* C12: scrape body shape. The answer to a scrape whose command succeeded and
\* whose poll was registered has 13 lines, however many scrapes came before:
\* HELP and TYPE of raspi_throttling_active once, 4 active samples holding the
\* decoded instantaneous flags, HELP and TYPE of raspi_throttling_occurred once,
\* 4 occurred samples, and "# EOF" last.
C12_BodyShape ==
    \A s \in Scrapes :
        (Answered(s) /\ Registered(s)) =>
            LET text == sent.result.text
            IN /\ sent.result.tag = "Ok"
               /\ Len(text) = 13
               /\ Cardinality(LinesOf(text, "# HELP", ActiveName)) = 1
               /\ Cardinality(LinesOf(text, "# TYPE", ActiveName)) = 1
               /\ Cardinality(LinesOf(text, "# HELP", OccurredName)) = 1
               /\ Cardinality(LinesOf(text, "# TYPE", OccurredName)) = 1
               /\ {text[i] : i \in LinesOf(text, "sample", ActiveName)}
                      = {Line("sample", ActiveName, k, ActiveValue(state[s].state, k)) : k \in KindSet}
               /\ Cardinality(LinesOf(text, "sample", ActiveName)) = 4
               /\ Cardinality(LinesOf(text, "sample", OccurredName)) = 4
               /\ text[Len(text)].t = "# EOF"

\* --------------------------------------------------------- the parser alone

\* The longest run of characters generated after the two-character prefix.
MaxDigits == 5

\* Characters the generated lines put after the prefix: hexadecimal digits of
\* both cases and one character that is no digit.
DigitChars == {"0", "2", "5", "d", "F", "z"}

\* Every run of at most `max` of these characters.
DigitStrings(max) == UNION {[1..n -> DigitChars] : n \in 0..max}

\* What the generated lines put where "0x" belongs.
Prefixes == {<<"0", "x">>, <<"1", "2">>, <<>>}

Line1250005 == <<"t", "h", "r", "o", "t", "t", "l", "e", "d", "=", "1", "2", "5", "0", "0", "0", "5">>
LineZZ == <<"t", "h", "r", "o", "t", "t", "l", "e", "d", "=", "0", "x", "z", "z">>
LinePadded == <<" ", "t", "=", "0", "x", "5", "0", "0", "0", "a", "\n", " ">>
LineTwoEquals == <<"a", "=", "b", "=", "0", "x", "1">>
LinePlus == <<"t", "=", "0", "x", "+", "5">>
LineMax == <<"t", "=", "0", "x", "F", "F", "F", "F", "F", "F", "F", "F">>
LineTooBig == <<"t", "=", "0", "x", "1", "0", "0", "0", "0", "0", "0", "0", "0">>
LineNoValue == <<"x", "=">>
Line1FFFFFFFF == <<"t", "h", "r", "o", "t", "t", "l", "e", "d", "=", "0", "x", "1", "f", "f", "f", "f", "f", "f", "f", "f">>

\* Lines around the width of a u32: 8 digits that are 0 or F, behind nothing,
\* one more digit or two.
WideLines ==
    {<<"t", "=", "0", "x">> \o front \o low :
         front \in {<<>>, <<"0">>, <<"1">>, <<"F">>, <<"0", "0">>, <<"0", "1">>},
         low \in [1..8 -> {"0", "F"}]}

\* The lines handed to parse(): the generated ones, with at most `max`
\* characters after the prefix, and the named ones.
ParserInputs(max) ==
    {<<"t", "=">> \o prefix \o digits : prefix \in Prefixes, digits \in DigitStrings(max)}
    \cup {<<>>, LineD0005, Line20002, LineGarbage, LineShort, Line1250005, LineZZ,
          LinePadded, LineTwoEquals, LinePlus, LineMax, LineTooBig, LineNoValue,
          Line1FFFFFFFF}
    \cup WideLines

\* collect() of the first scrape has the executor's output in hand and is about
\* to call parse() on it.
ParserInit ==
    /\ \E input \in ParserInputs(MaxDigits) :
          /\ output = [s \in Scrapes |-> IF s = 1 THEN [tag |-> "Ok", out |-> input] ELSE None]
          /\ child = [s \in Scrapes |-> IF s = 1 THEN Child(TRUE, 0, TRUE, input) ELSE None]
    /\ pc = [s \in Scrapes |-> IF s = 1 THEN "parse" ELSE "idle"]
    /\ calls = [s \in Scrapes |->
                   IF s = 1 THEN [collect |-> 1, execute |-> 1, parse |-> 0, register |-> 0]
                   ELSE NoCalls]
    /\ registry = <<>>
    /\ lock = 0
    /\ state = [s \in Scrapes |-> None]
    /\ throttling_active_family = [s \in Scrapes |-> 0]
    /\ throttling_occurred_family = [s \in Scrapes |-> 0]
    /\ kind = [s \in Scrapes |-> 0]
    /\ metric_get = [s \in Scrapes |-> 0]
    /\ prev_occurred = [s \in Scrapes |-> [k \in KindSet |-> 0]]
    /\ overlapped = FALSE
    /\ sent = [scrape |-> 0, result |-> None, response |-> NoResponse]
    /\ server = Serving
    /\ hung = {}

ParserNext == Parse(1)

ParserSpec == ParserInit /\ [][ParserNext]_vars

\* parse() has been applied to the line.
Parsed == pc[1] /= "parse"

\* The line parse() was given, and what it has after the first '='.
ParserInput == output[1].out
RightSide == SplitOnce(Trim(ParserInput)).right

\* The numeral parse() reads: the right side without its first two characters
\* and without the sign from_str_radix accepts.
Numeral ==
    LET rest == SubSeq(RightSide, 3, Len(RightSide))
    IN IF rest /= <<>> /\ Head(rest) = "+" THEN Tail(rest) ELSE rest

\* Bit i of the value a hexadecimal numeral denotes: bit (i mod 4) of its digit
\* of weight 16^(i div 4), 0 when the numeral has no such digit.
BitOfNumeral(numeral, i) ==
    LET pos == Len(numeral) - (i \div 4)
    IN IF pos < 1 THEN FALSE
       ELSE (ToDigit(numeral[pos]) \div (2 ^ (i % 4))) % 2 = 1

\* C13: bit decode. For every line the parser accepts, the 8 flags of the
\* returned ThrottledState are bits 0, 1, 2, 3 (the instantaneous flags, in
\* kind order) and 16, 17, 18, 19 (the historical flags) of the value the
\* numeral denotes; no other bit of the value has a part in the state.
C13_BitDecode ==
    (Parsed /\ state[1].tag = "Ok") =>
        state[1].state =
            [undervoltage_detected |-> BitOfNumeral(Numeral, 0),
             arm_frequency_capped |-> BitOfNumeral(Numeral, 1),
             currently_throttled |-> BitOfNumeral(Numeral, 2),
             soft_temperature_limit_active |-> BitOfNumeral(Numeral, 3),
             undervoltage_has_occurred |-> BitOfNumeral(Numeral, 16),
             arm_frequency_capping_has_occurred |-> BitOfNumeral(Numeral, 17),
             throttling_has_occurred |-> BitOfNumeral(Numeral, 18),
             soft_temperature_limit_has_occurred |-> BitOfNumeral(Numeral, 19)]

\* 0xd0F05 differs from 0xd0005 in bits 8..11 only and decodes as the test's
\* 0xd0005 does.
C13_Witness ==
    /\ Parsed
    /\ ParserInput = <<"t", "=", "0", "x", "d", "0", "F", "0", "5">>
    /\ state[1].tag = "Ok"
    /\ state[1].state =
           [undervoltage_detected |-> TRUE,
            arm_frequency_capped |-> FALSE,
            currently_throttled |-> TRUE,
            soft_temperature_limit_active |-> FALSE,
            undervoltage_has_occurred |-> TRUE,
            arm_frequency_capping_has_occurred |-> FALSE,
            throttling_has_occurred |-> TRUE,
            soft_temperature_limit_has_occurred |-> TRUE]

\* C14: the parser is total. Whatever the line, parse() returns a
\* ThrottledState or an error that embeds the line: it never panics.
C14_ParserTotal ==
    Parsed =>
        /\ state[1].tag \in {"Ok", "Err"}
        /\ state[1].tag = "Err" => state[1].err = InvalidInput(ParserInput)

\* C15: prefix check. A line is accepted only if what follows its first '='
\* begins with "0x" and goes on with hexadecimal digits alone, at least one.
C15_PrefixCheck ==
    (Parsed /\ state[1].tag = "Ok") =>
        /\ Len(RightSide) > 2
        /\ SubSeq(RightSide, 1, 2) = <<"0", "x">>
        /\ \A i \in 3..Len(RightSide) : ToDigit(RightSide[i]) >= 0

\* ------------------------------------------------------- the executor alone

\* The largest exit status the generated children leave with.
MaxExitCode == 2

\* ExitStatus::code(): a status, or none for a child killed by a signal.
ExitCodes == (0..MaxExitCode) \cup {NoCode}

\* What the generated children write to stdout before they end.
Stdouts == {<<>>, LineD0005, LineGarbage}

\* A command that cannot be spawned, and every spawned child: each way of
\* ending, with text or with bytes that are no UTF-8 on stdout.
ExecutorChildren ==
    {Child(FALSE, NoCode, TRUE, <<>>)}
    \cup {Child(TRUE, code, utf8, stdout) :
             code \in ExitCodes, utf8 \in BOOLEAN, stdout \in Stdouts}

\* Every scrape has been accepted and awaits its child.
ExecutorInit ==
    /\ pc = [s \in Scrapes |-> "execute"]
    /\ calls = [s \in Scrapes |-> [collect |-> 1, execute |-> 0, parse |-> 0, register |-> 0]]
    /\ registry = <<>>
    /\ lock = 0
    /\ output = [s \in Scrapes |-> None]
    /\ state = [s \in Scrapes |-> None]
    /\ throttling_active_family = [s \in Scrapes |-> 0]
    /\ throttling_occurred_family = [s \in Scrapes |-> 0]
    /\ kind = [s \in Scrapes |-> 0]
    /\ metric_get = [s \in Scrapes |-> 0]
    /\ prev_occurred = [s \in Scrapes |-> [k \in KindSet |-> 0]]
    /\ overlapped = FALSE
    /\ sent = [scrape |-> 0, result |-> None, response |-> NoResponse]
    /\ child = [s \in Scrapes |-> None]
    /\ server = Serving
    /\ hung = {}

ExecutorNext == \E s \in Scrapes : \E c \in ExecutorChildren : ExecuteChild(s, c)

ExecutorSpec == ExecutorInit /\ [][ExecutorNext]_vars

\* execute() has returned for this scrape.
Executed(s) == child[s] /= None

\* C16: executor outcome classification. execute() returns the captured stdout
\* exactly when the child was spawned, left with status 0 and wrote UTF-8;
\* otherwise it returns the failure of its case and no output: spawn failure,
\* nonzero exit with the exit code, termination by signal, stdout that is no
\* text. The exit status decides before stdout is decoded.
C16_ExecutorOutcome ==
    \A s \in Scrapes :
        Executed(s) =>
            LET c == child[s]
                r == output[s]
            IN /\ r.tag \in {"Ok", "Err"}
               /\ r.tag = "Ok" <=> (c.spawned /\ c.code = 0 /\ c.utf8)
               /\ r.tag = "Ok" => r.out = c.stdout
               /\ r.tag = "Err" => DOMAIN r = {"tag", "err"}
               /\ ~c.spawned => r.err.kind = "command execution error"
               /\ (c.spawned /\ c.code \notin {0, NoCode}) =>
                      /\ r.err.kind = "process exited with status code"
                      /\ r.err.code = c.code
               /\ (c.spawned /\ c.code = NoCode) => r.err.kind = "process terminated by signal"
               /\ (c.spawned /\ c.code = 0 /\ ~c.utf8) => r.err.kind = "invalid utf-8 sequence"

\* A child that wrote bytes that are no text and left with status 2 is reported
\* by its status, beside one that succeeded.
C16_Witness ==
    \E s, t \in Scrapes :
        /\ Executed(s) /\ Executed(t)
        /\ child[s] = Child(TRUE, 2, FALSE, LineD0005)
        /\ output[s].err.kind = "process exited with status code"
        /\ output[s].err.code = 2
        /\ output[t] = [tag |-> "Ok", out |-> LineD0005]

\* ------------------------------------------------- lock scope and pipeline

\* The positions at which a task is outside both lock scopes of the code: not
\* yet accepted, awaiting its child, parsing, or ended.
OutsideLockPcs == {"idle", "execute", "parse", "done", "panicked"}

\* C18: lock scope. A task that holds the registry lock is not awaiting the
\* command, not parsing and not ended: its executor and its parser have
\* succeeded, and when it holds the lock to serialize, its collect() has
\* returned. The lock is held by one task or free.
C18_LockScope ==
    /\ lock \in Scrapes \cup {0}
    /\ \A s \in Scrapes :
          lock = s =>
              /\ pc[s] \notin OutsideLockPcs
              /\ output[s].tag = "Ok"
              /\ state[s].tag = "Ok"
              /\ pc[s] = "encode" => RegisterReturned(s)
              /\ pc[s] /= "encode" => pc[s] = "reg_families"

\* One scrape serializes under the lock while another parses.
C18_Witness ==
    \E s, t \in Scrapes :
        /\ lock = s
        /\ pc[s] = "encode"
        /\ pc[t] = "parse"

\* The scrape has called every stage once.
AllStagesOnce == [collect |-> 1, execute |-> 1, parse |-> 1, register |-> 1]

\* What the call counts of a scrape say of where it is and of what it holds.
StagesInOrder(s) ==
    /\ calls[s].collect = (IF pc[s] = "idle" THEN 0 ELSE 1)
    /\ calls[s].execute = (IF pc[s] \in {"idle", "execute"} THEN 0 ELSE 1)
    /\ calls[s].parse <= calls[s].execute
    /\ calls[s].register <= calls[s].parse
    /\ calls[s].execute = 0 => (child[s] = None /\ output[s] = None)
    /\ calls[s].execute = 1 =>
           (child[s] /= None /\ output[s] = CommandExecutor_execute(child[s]))
    /\ calls[s].parse = 0 => (state[s] = None /\ pc[s] /= "panicked")
    /\ calls[s].parse = 1 => (output[s].tag = "Ok" /\ state[s] /= None)
    /\ (output[s].tag = "Ok" /\ pc[s] /= "parse") => calls[s].parse = 1
    /\ calls[s].register = 0 => ~Registered(s)
    /\ calls[s].register = 1 => state[s].tag = "Ok"
    /\ (state[s].tag = "Ok" /\ pc[s] /= "reg_lock") => calls[s].register = 1
    /\ RegisterReturned(s) =>
           \A k \in KindSet :
               registry[throttling_active_family[s]].metrics[k] = ActiveValue(state[s].state, k)

\* C19: pipeline order and multiplicity. An accepted scrape has called
\* collect() once; once past its child it has run the executor exactly once, on
\* a child of its own, and holds what execute() made of that child; the parser
\* is called at most once, after a successful executor, and the call leaves
\* parse() of exactly the executor's output; the registerer is called at most
\* once, after a successful parse, and writes exactly the parser's result; no
\* stage is called before the one it follows, and each call is one more call.
C19_Pipeline ==
    /\ [](\A s \in Scrapes : StagesInOrder(s))
    /\ [][\A s \in Scrapes :
             /\ calls'[s].execute /= calls[s].execute =>
                    /\ pc[s] = "execute"
                    /\ calls'[s].execute = calls[s].execute + 1
             /\ calls'[s].parse /= calls[s].parse =>
                    /\ pc[s] = "parse"
                    /\ calls'[s].parse = calls[s].parse + 1
                    /\ state'[s] = ThrottledParser_parse(output[s].out)
             /\ calls'[s].register /= calls[s].register =>
                    /\ pc[s] = "reg_lock"
                    /\ calls'[s].register = calls[s].register + 1]_vars

\* Two scrapes that ran at the same time have both gone through every stage
\* once: two polls, two registrations.
C19_Witness ==
    /\ \A s \in Scrapes : Done(s) /\ calls[s] = AllStagesOnce
    /\ overlapped
    /\ Len(registry) = 2 * MaxScrapes

\* ------------------------------------------------- shutdown and progress

\* SignalKind::interrupt() and SignalKind::terminate()
Signals == {"SIGINT", "SIGTERM"}

\* What the children of this specification do: one exits with status 1, one
\* prints a line that decodes, one a line without '=', one a line that is too
\* short after '='.
LiveChildren ==
    {Child(TRUE, 1, TRUE, <<>>),
     Child(TRUE, 0, TRUE, LineD0005),
     Child(TRUE, 0, TRUE, LineGarbage),
     Child(TRUE, 0, TRUE, LineShort)}

\* The request has been accepted and its task has not ended.
InFlight(s) == pc[s] \notin {"idle", "done", "panicked"}

\* Command::output().await never resolves: the child of this scrape never exits.
Hang(s) ==
    /\ pc[s] = "execute"
    /\ s \notin hung
    /\ hung' = hung \cup {s}
    /\ UNCHANGED <<pc, registry, lock, output, state, throttling_active_family,
                   throttling_occurred_family, kind, metric_get, prev_occurred, overlapped, sent,
                   child, calls, server>>

\* shutdown_signal(): the first SIGINT or SIGTERM completes the select!, and
\* with_graceful_shutdown stops accepting.
ShutdownSignal(sig) ==
    /\ server.phase = "serving"
    /\ server' = [phase |-> "draining", signal |-> sig]
    /\ UNCHANGED <<pc, registry, lock, output, state, throttling_active_family,
                   throttling_occurred_family, kind, metric_get, prev_occurred, overlapped, sent,
                   child, calls, hung>>

\* axum::serve(..).with_graceful_shutdown(..).await returns once every
\* connection task has ended, and start() returns Ok(()).
Return ==
    /\ server.phase = "draining"
    /\ \A s \in Scrapes : ~InFlight(s)
    /\ server' = [server EXCEPT !.phase = "returned"]
    /\ UNCHANGED <<pc, registry, lock, output, state, throttling_active_family,
                   throttling_occurred_family, kind, metric_get, prev_occurred, overlapped, sent,
                   child, calls, hung>>

\* The steps of one request's task after it has been accepted, parse() apart.
Progress(s) ==
    \/ \E c \in LiveChildren : ExecuteChild(s, c)
    \/ RegisterLock(s)
    \/ RegisterFamilies(s)
    \/ ActiveGetOrCreate(s)
    \/ ActiveSet(s)
    \/ OccurredGetOrCreate(s)
    \/ OccurredGet(s)
    \/ OccurredInc(s)
    \/ EncodeLock(s)
    \/ EncodeRegistry(s)

LiveNext ==
    \/ \E s \in Scrapes : Accept(s)
    \/ \E s \in Scrapes : Parse(s)
    \/ \E s \in Scrapes : Progress(s)
    \/ \E s \in Scrapes : Hang(s)
    \/ \E sig \in Signals : ShutdownSignal(sig)
    \/ Return

\* The runtime runs every task that can run, a child that does not hang exits,
\* and serve() returns when it can. Requests and signals may never come.
\* parse() is a call that runs to its end, by returning or by panicking: no task
\* stays in front of it. Parse(s) is enabled exactly when pc[s] = "parse" and
\* leaves that position, so its weak fairness is written as that recurrence.
LiveSpec ==
    /\ Init
    /\ [][LiveNext]_vars
    /\ \A s \in Scrapes : WF_vars(Progress(s)) /\ []<>(pc[s] /= "parse")
    /\ WF_vars(Return)

\* C17: graceful shutdown. Once SIGINT or SIGTERM has been delivered no new
\* request is accepted, every request in flight whose child exits is answered,
\* and start() returns unless a child hangs.
C17_GracefulShutdown ==
    /\ [][server.phase /= "serving" =>
             \A s \in Scrapes : pc[s] = "idle" => pc'[s] = "idle"]_vars
    /\ \A s \in Scrapes :
          (server.phase = "draining" /\ InFlight(s)) ~> (Done(s) \/ s \in hung)
    /\ \A sig \in Signals :
          (server.signal = sig) ~> (server.phase = "returned" \/ hung /= {})

\* C20: scrape isolation and progress. A scrape that awaits its child is
\* answered or its own child hangs, whatever the other scrapes' children do,
\* and a task that waits for the registry lock gets it.
C20_ScrapeProgress ==
    /\ \A s \in Scrapes : (pc[s] = "execute") ~> (Done(s) \/ s \in hung)
    /\ \A s \in Scrapes : (pc[s] \in {"reg_lock", "encode_lock"}) ~> (lock = s)

\* ------------------------------------------------------------ gauge range

\* Every value a gauge of the registry holds.
GaugeValues ==
    {registry[i].metrics[k] : i \in 1..Len(registry), k \in KindSet} \ {Absent}

\* The occurred gauge this task's register() call is at.
OccurredMetric(s) == registry[throttling_occurred_family[s]].metrics[Kinds[kind[s]]]

\* C21: gauge range. In every reachable state, under any interleaving of
\* concurrent register() calls, every gauge of both families holds 0 or 1; a
\* task between metric.get() == 0 and metric.inc() still finds 0 in the gauge
\* it read, so the increment never takes a gauge to 2.
C21_GaugeRange ==
    /\ GaugeValues \subseteq {0, 1}
    /\ \A s \in Scrapes :
          pc[s] = "occurred_inc" => (metric_get[s] = 0 /\ OccurredMetric(s) = 0)

\* Two register() calls are at the occurred gauge of the same kind, both with
\* the historical flag set: one has incremented, the other has read 0 and is
\* about to increment.
C21_Witness ==
    \E s, t \in Scrapes :
        /\ s /= t
        /\ pc[s] = "occurred_create" /\ kind[s] = 2
        /\ registry[throttling_occurred_family[s]].metrics[Kinds[1]] = 1
        /\ pc[t] = "occurred_inc" /\ kind[t] = 1
        /\ OccurredFlag(state[t].state, Kinds[1])

\* ------------------------------------------------- label and whitespace

\* Labels without '=': empty, the command's, with spaces, looking like a prefix.
Labels ==
    {<<>>,
     <<"t">>,
     <<"t", "h", "r", "o", "t", "t", "l", "e", "d">>,
     <<" ", "a", " ", "b">>,
     <<"0", "x">>}

\* Whitespace appended to a line: the newline the command prints, and others.
TrailingWhitespace == {<<"\n">>, <<" ">>, <<"\r", "\n">>, <<"\t", " ">>}

\* The line is <label>=0x<h> with h made of hexadecimal digits alone (of any
\* number: none, or more than a u32 holds).
HexLine(line) ==
    LET split == SplitOnce(line)
    IN /\ split.found
       /\ Len(split.right) >= 2
       /\ SubSeq(split.right, 1, 2) = <<"0", "x">>
       /\ \A i \in 3..Len(split.right) : ToDigit(split.right[i]) >= 0

\* The h of such a line.
HexOf(line) == LET right == SplitOnce(line).right IN SubSeq(right, 3, Len(right))

\* Two results of parse() are the same: the same ThrottledState, or the same
\* failure (the message of a failure carries the line it was given).
SameResult(a, b) ==
    /\ a.tag = b.tag
    /\ a.tag = "Ok" => a.state = b.state
    /\ a.tag = "Err" => a.err.kind = b.err.kind

\* C22: the parse result depends only on the hex value. For a line
\* <label>=0x<h> the result is the one of every other label without '=' in
\* front of the same =0x<h>, and whitespace appended to an accepted line does
\* not change the result.
C22_LabelIgnored ==
    Parsed =>
        /\ HexLine(ParserInput) =>
               \A label \in Labels :
                   SameResult(ThrottledParser_parse(label \o <<"=", "0", "x">> \o HexOf(ParserInput)),
                              state[1])
        /\ state[1].tag = "Ok" =>
               \A ws \in TrailingWhitespace :
                   ThrottledParser_parse(ParserInput \o ws) = state[1]

\* t=0xFFFFFFFF is accepted, and so is throttled=0xFFFFFFFF with a newline,
\* with the same state.
C22_Witness ==
    /\ Parsed
    /\ ParserInput = LineMax
    /\ HexLine(ParserInput)
    /\ state[1].tag = "Ok"
    /\ state[1].state.soft_temperature_limit_has_occurred
    /\ ThrottledParser_parse(<<"t", "h", "r", "o", "t", "t", "l", "e", "d">>
                             \o <<"=", "0", "x">> \o HexOf(LineMax) \o <<"\n">>) = state[1]

\* ------------------------------------------- the handler without collector

\* What a registry holds after one register(st) that ran alone.
RegistryOf(st) ==
    <<[name |-> ActiveName, help |-> ActiveHelp,
       metrics |-> [k \in KindSet |-> ActiveValue(st, k)]],
      [name |-> OccurredName, help |-> OccurredHelp,
       metrics |-> [k \in KindSet |-> BoolToInt(OccurredFlag(st, k))]]>>

\* The registries MetricsHandler::new is given: Registry::default(), as main
\* builds it, two families that have no gauge yet, and registries a poll has
\* written.
DisabledRegistries ==
    {<<>>, <<NewFamily(ActiveName, ActiveHelp), NewFamily(OccurredName, OccurredHelp)>>}
    \cup {RegistryOf(Decode(U32(hi, lo))) : hi \in {0, 5, 13, 15}, lo \in {0, 2, 5, 15}}

\* MetricsHandler::new(None, registry): throttled is not among the enabled
\* metrics, and no request has come yet.
DisabledInit ==
    /\ registry \in DisabledRegistries
    /\ pc = [s \in Scrapes |-> "idle"]
    /\ lock = 0
    /\ output = [s \in Scrapes |-> None]
    /\ state = [s \in Scrapes |-> None]
    /\ throttling_active_family = [s \in Scrapes |-> 0]
    /\ throttling_occurred_family = [s \in Scrapes |-> 0]
    /\ kind = [s \in Scrapes |-> 0]
    /\ metric_get = [s \in Scrapes |-> 0]
    /\ prev_occurred = [s \in Scrapes |-> [k \in KindSet |-> 0]]
    /\ overlapped = FALSE
    /\ sent = [scrape |-> 0, result |-> None, response |-> NoResponse]
    /\ child = [s \in Scrapes |-> None]
    /\ calls = [s \in Scrapes |-> NoCalls]
    /\ server = Serving
    /\ hung = {}

\* A handler that calls the collector although it was built without one.
AcceptDisabled_collecting(s) ==
    /\ server.phase = "serving"
    /\ pc[s] = "idle"
    /\ \A j \in 1..(s - 1) : pc[j] /= "idle"
    /\ pc' = [pc EXCEPT ![s] = "encode_lock"]
    /\ calls' = [calls EXCEPT ![s].collect = @ + 1, ![s].execute = @ + 1]
    /\ child' = [child EXCEPT ![s] = Child(TRUE, 0, TRUE, <<>>)]
    /\ UNCHANGED <<registry, lock, output, state, throttling_active_family,
                   throttling_occurred_family, kind, metric_get, prev_occurred, overlapped, sent,
                   server, hung>>

\* A GET /metrics arrives at a handler without collector: `if let Some(..)` of
\* handle(), line 45, does not match and handle() goes on to encode.
AcceptDisabled(s) ==
    /\ server.phase = "serving"
    /\ pc[s] = "idle"
    /\ \A j \in 1..(s - 1) : pc[j] /= "idle"
    /\ pc' = [pc EXCEPT ![s] = "encode_lock"]
    /\ UNCHANGED <<registry, lock, output, state, throttling_active_family,
                   throttling_occurred_family, kind, metric_get, prev_occurred, overlapped, sent,
                   child, calls, server, hung>>

DisabledNext ==
    \E s \in Scrapes :
        \/ AcceptDisabled(s)
        \/ EncodeLock(s)
        \/ EncodeRegistry(s)

DisabledSpec == DisabledInit /\ [][DisabledNext]_vars

\* C23: disabled collector. A handler built without a collector runs no
\* external command (no stage of the pipeline is called, no child exists, no
\* output and no state is held), no step changes the registry, and every answer
\* is a success that carries the serialization of the registry as it is, sent
\* with status 200: no scrape fails.
C23_DisabledCollector ==
    /\ [](/\ \A s \in Scrapes :
              /\ calls[s] = NoCalls
              /\ child[s] = None
              /\ output[s] = None
              /\ state[s] = None
              /\ ~Registered(s)
              /\ pc[s] \in {"idle", "encode_lock", "encode", "done"}
              /\ Answered(s) =>
                     /\ sent.result = [tag |-> "Ok", text |-> Encode(registry)]
                     /\ sent.response.status = 200
                     /\ sent.response.body = Encode(registry)
          /\ (\E s \in Scrapes : Done(s)) => sent.result.tag = "Ok")
    /\ [][registry' = registry]_vars

\* Every scrape has been answered from a registry that holds what a poll of
\* 0xd0005 left: a text of 13 lines.
C23_Witness ==
    /\ \A s \in Scrapes : Done(s) /\ calls[s] = NoCalls
    /\ registry = RegistryOf(Decode(U32(13, 5)))
    /\ sent.result.tag = "Ok"
    /\ Len(sent.result.text) = 13
    /\ sent.response.status = 200

\* ------------------------------------------------------------ 32-bit bound

\* A numeral without its leading zeros: its significant digits.
RECURSIVE Significant(_)
Significant(numeral) ==
    IF numeral /= <<>> /\ Head(numeral) = "0" THEN Significant(Tail(numeral)) ELSE numeral

\* C24: 32-bit bound. A line <label>=0x<h> whose h has more than 8 significant
\* hexadecimal digits, a value no u32 holds, yields the error that embeds the
\* line; and no accepted line has more than 8 significant digits: the value is
\* never truncated or wrapped modulo 2^32 into a ThrottledState.
C24_U32Bound ==
    Parsed =>
        /\ (HexLine(Trim(ParserInput)) /\ Len(Significant(HexOf(Trim(ParserInput)))) > 8) =>
               state[1] = [tag |-> "Err", err |-> InvalidInput(ParserInput)]
        /\ state[1].tag = "Ok" => Len(Significant(Numeral)) <= 8

\* throttled=0x1ffffffff, whose low 32 bits are 0xffffffff, is refused.
C24_Witness ==
    /\ Parsed
    /\ ParserInput = Line1FFFFFFFF
    /\ Len(Significant(Numeral)) = 9
    /\ state[1] = [tag |-> "Err", err |-> InvalidInput(Line1FFFFFFFF)]

====
